---- MODULE Spec2Model ----
(***************************************************************************)
(* CosmologicalSimulation (src/src/actors/particles.rs): the particle      *)
(* field, its initialisation passes (modify_particle_masses,               *)
(* randomize_particle_directions, optimize_for_orbits) and the per-tick    *)
(* step with its two parallel phases (force evaluation, integration).      *)
(*                                                                         *)
(* Numbers.  Every f64 of the program is held as an integer number of      *)
(* thousandths (scale S); products and quotients are truncated toward      *)
(* zero.  The drag coefficient is held in millionths and the drag force in *)
(* 10^-9 units so that the three drag multipliers (0.015, 0.05, 0.001) are *)
(* exact.  Each parallel closure invocation (one rayon work item) is one   *)
(* atomic action; the items of a phase run in any order.                   *)
(* A NaN is the value NaN below: every operation with a NaN operand yields  *)
(* NaN and every comparison with it is false.                              *)
(*                                                                         *)
(* The rendering systems (spawn_particles, update_simulation) act on one   *)
(* entity per particle; apply_boundary_conditions, which no system calls,  *)
(* is applied between ticks in a specification of its own.                 *)
(***************************************************************************)
EXTENDS Integers, Sequences, FiniteSets, TLC

S == 10 ^ 3

(* ------------------------------ bounds -------------------------------- *)
MaxParticles == 2
MaxTicks == 2
MaxModifyCalls == 1
MaxRandomizeCalls == 1

(* ------------------------- fixed-point helpers ------------------------ *)
\* f64::NAN: a value outside the range of every number the model computes.
\* An arithmetic result is NaN as soon as an operand is; a comparison with a
\* NaN operand is false.
NaN == -(2 ^ 30) - (2 ^ 30 - 1)

IsNaN(a) == a = NaN

AnyNaN(values) == \E a \in values : IsNaN(a)

Abs(a) == IF a < 0 THEN -a ELSE a

Sgn(a) == IF a < 0 THEN -1 ELSE IF a > 0 THEN 1 ELSE 0

Min(a, b) == IF a < b THEN a ELSE b

Max(a, b) == IF a > b THEN a ELSE b

\* a / b truncated toward zero (b # 0).
TDiv(a, b) == Sgn(a) * Sgn(b) * (Abs(a) \div Abs(b))

\* a * b / c truncated toward zero, c > 0, without forming a * b.
MulDiv(a, b, c) ==
    LET aa == Abs(a)
        bb == Abs(b)
    IN  Sgn(a) * Sgn(b) * ((aa \div c) * bb + ((aa % c) * bb) \div c)

\* Product of two thousandths-quantities, in thousandths.
FMul(a, b) == MulDiv(a, b, S)

\* Quotient a / b of two thousandths-quantities, in thousandths (b > 0).
FDiv(a, b) == IF b >= S * S THEN TDiv(a, b \div S) ELSE MulDiv(a, S, b)

RECURSIVE SqrtSearch(_, _, _)
SqrtSearch(n, lo, hi) ==
    IF lo >= hi THEN lo
    ELSE LET mid == (lo + hi + 1) \div 2
         IN  IF mid * mid <= n THEN SqrtSearch(n, mid, hi)
             ELSE SqrtSearch(n, lo, mid - 1)

\* Largest r with r * r <= n.
ISqrt(n) == SqrtSearch(n, 0, 46340)

\* f64::mul_add(self, a, b) = self * a + b, a and b whole numbers.
MulAdd(r, a, b) == r * a + b * S

\* x^2 as <<hi, lo>> with x^2 = hi * 10^6 + lo and 0 <= lo < 10^6, for
\* |x| up to 2 * 10^6 (the square itself does not fit the integers checked).
Square(x) ==
    LET a == Abs(x) \div 1000
        b == Abs(x) % 1000
        m == 2 * a * b
        l == (m % 1000) * 1000 + b * b
    IN  <<a * a + m \div 1000 + l \div 1000000, l % 1000000>>

\* x^2 + y^2 in the same form.
SumSquares(x, y) ==
    LET sx == Square(x)
        sy == Square(y)
    IN  <<sx[1] + sy[1] + (sx[2] + sy[2]) \div 1000000, (sx[2] + sy[2]) % 1000000>>

\* u <= v for two numbers in that form.
PairLeq(u, v) == u[1] < v[1] \/ (u[1] = v[1] /\ u[2] <= v[2])

\* x^2 + y^2 <= r^2
WithinRadius(x, y, r) == PairLeq(SumSquares(x, y), Square(r))

\* sqrt(x^2 + y^2); beyond the range whose squares fit, to the precision of
\* whole units.
Hypot(x, y) ==
    IF Abs(x) <= 30000 /\ Abs(y) <= 30000 THEN ISqrt(x * x + y * y)
    ELSE LET ux == Abs(x) \div S
             uy == Abs(y) \div S
         IN  S * ISqrt(ux * ux + uy * uy)

\* (x^2 + y^2) in thousandths, with the same loss of precision.
SquaredLength(x, y) ==
    IF Abs(x) <= 30000 /\ Abs(y) <= 30000 THEN (x * x + y * y) \div S
    ELSE LET ux == Abs(x) \div S
             uy == Abs(y) \div S
         IN  (ux * ux + uy * uy) * S

\* Velocity2D::magnitude of (vx, vy).
Magnitude(vx, vy) == IF AnyNaN({vx, vy}) THEN NaN ELSE ISqrt(vx * vx + vy * vy)

\* Velocity2D::direction: the unit vector of (vx, vy), (0, 0) for a zero vector.
Direction(vx, vy) ==
    LET m == Magnitude(vx, vy)
    IN  IF IsNaN(m) THEN <<NaN, NaN>>
        ELSE IF m = 0 THEN <<0, 0>>
        ELSE <<TDiv(vx * S, m), TDiv(vy * S, m)>>

\* cos and sin of an angle in [-PI/2, 0], by their power series.
Cos(x) ==
    LET x2 == FMul(x, x)
        x4 == FMul(x2, x2)
        x6 == FMul(x4, x2)
        x8 == FMul(x4, x4)
    IN  S - TDiv(x2, 2) + TDiv(x4, 24) - TDiv(x6, 720) + TDiv(x8, 40320)

Sin(x) ==
    LET x2 == FMul(x, x)
        x3 == FMul(x2, x)
        x5 == FMul(x3, x2)
        x7 == FMul(x5, x2)
        x9 == FMul(x7, x2)
    IN  x - TDiv(x3, 6) + TDiv(x5, 120) - TDiv(x7, 5040) + TDiv(x9, 362880)

(* ------------------------- program constants -------------------------- *)
PI == 3142

SunCut == 1
PlanetCut == 10
AsteroidCut == 100

SunScale == 5000
SunBase == 2000
PlanetScale == 500
PlanetBase == 100
AsteroidScale == 50
AsteroidBase == 20
DustScale == 10
DustBase == 1

SunSpin == 20
PlanetSpin == 10
AsteroidSpin == 5
DustSpin == 1

ModifyChunk == 8192
RandomizeChunk == 4096

BoundsFactor == 100
StandardBoundsFactor == 80

(* ------------------------------ inputs -------------------------------- *)
\* Arguments of CosmologicalSimulation::new.
Radii == {0, 3 * S}
Timesteps == {0, S}
GravConstants == {1}
Thetas == {850}

\* Values of rand::random::<f64>(), which lies in [0, 1).
Selectors == {0, 1, 9, 10, 99, 100, 999}
ExtremeSelectors == {0, 999}
MassDraws == {0, 999}
AngleDraws == {500}

\* What create_big_bang_particles may return for one particle.
InitPositions == {<<0, 0>>, <<0, -3 * S>>}
InitVelocities == {<<0, 0>>, <<3 * S, 0>>, <<-6, 8>>}
InitMasses == {S}
InitSpins == {S}
InitDensities == {S \div 2}

VARIABLES
    num_particles,       \* the num_particles argument of new
    particles,           \* Vec<Particle>
    standard_particles,  \* Vec<ParticleData>
    bounds,              \* cosmological Quad
    standard_bounds,     \* Quad handed to build_tree
    time, dt, theta, g, initial_radius,
    pc,                  \* "idle", or the parallel phase in progress
    done,                \* indices whose work item of the phase has run
    tree,                \* step's tree: the particles build_tree was given
    orbital_factors,     \* step's orbital_factors
    forces,              \* step's forces; NoForce until computed
    ticks, modify_calls, randomize_calls,
    log,                 \* element accesses of the phase's work items
    pre, pre_std, pre_time,  \* the field as step found it
    spin0,               \* spins as modify_particle_masses found them
    tier,                \* branch modify_particle_masses took per index
    loc,                 \* locals of step's closures, per index
    created,             \* the particles as new created them
    entities,            \* the render entities spawn_particles spawned
    spawned,             \* spawn_particles has run
    frames,              \* completed runs of update_simulation
    twin,                \* the field of a second run of the initialisation
    wrapped,             \* the last call of apply_boundary_conditions
    orbit                \* the two-body field of the orbit scenario, in millionths

vars == <<num_particles, particles, standard_particles, bounds, standard_bounds,
          time, dt, theta, g, initial_radius, pc, done, tree, orbital_factors,
          forces, ticks, modify_calls, randomize_calls, log, pre, pre_std,
          pre_time, spin0, tier, loc, created, entities, spawned, frames, twin,
          wrapped, orbit>>

\* What the methods of the particle field leave alone.
frame_vars == <<created, entities, spawned, frames, twin, wrapped, orbit>>

NoForce == <<"none">>

Indices == 1..Len(particles)

NoLocals == [sfx |-> 0, sfy |-> 0, gvx |-> 0, gvy |-> 0, speed |-> 0, optimal |-> 0, drag_strength |-> 0,
             drag_fx |-> 0, drag_fy |-> 0, integrated |-> FALSE]

(* --------------------------- orbit scenario --------------------------- *)
\* One attractor at the origin and one light particle on the x axis, moving
\* tangentially at the speed step computes as optimal for its mass.  Positions
\* and velocities are in millionths, masses, g and dt in thousandths.
U == 10 ^ 6

OrbitTicks == 1000
OrbitRadius == 400
OrbitAttractorMass == 10000
OrbitParticleMass == 1
OrbitG == 318
OrbitDt == 16

\* sqrt(x^2 + y^2) of two millionths-quantities, computed on a grid fine
\* enough for the squares to fit.
OrbitGrid(x, y) ==
    IF Abs(x) <= 30000 /\ Abs(y) <= 30000 THEN 1
    ELSE IF Abs(x) <= 3000000 /\ Abs(y) <= 3000000 THEN 100
    ELSE 20000

OrbitNorm(x, y) ==
    LET k == OrbitGrid(x, y)
    IN  k * ISqrt((x \div k) * (x \div k) + (y \div k) * (y \div k))

\* (mass / 1000.0).sqrt() * 0.2, in millionths.
OrbitOptimalSpeed(mass) ==
    IF mass <= 2000 THEN ISqrt(mass * U) \div 5 ELSE (S * ISqrt(mass)) \div 5

OrbitStart ==
    [n |-> 0,
     ps |-> << [x |-> 0, y |-> 0, vx |-> 0, vy |-> 0, mass |-> OrbitAttractorMass * S],
               [x |-> OrbitRadius * U, y |-> 0, vx |-> 0,
                vy |-> OrbitOptimalSpeed(OrbitParticleMass * S),
                mass |-> OrbitParticleMass * S] >>]

(* --------------------------- construction ----------------------------- *)
\* create_big_bang_particles: positions within initial_radius of the origin.
BigBangParticlesWith(radius, positions, velocities, densities) ==
    { [x |-> p[1], y |-> p[2], vx |-> v[1], vy |-> v[2], mass |-> m, spin |-> s,
       age |-> 0, density |-> d] :
        p \in {q \in positions : WithinRadius(q[1], q[2], radius)},
        v \in velocities, m \in InitMasses, s \in InitSpins, d \in densities }

BigBangParticlesFrom(radius, positions, velocities) ==
    BigBangParticlesWith(radius, positions, velocities, InitDensities)

BigBangParticles(radius) == BigBangParticlesFrom(radius, InitPositions, InitVelocities)

convert_transposed(p) == [x |-> p.y, y |-> p.x, mass |-> p.mass]

convert_to_particle_data(p) == [x |-> p.x, y |-> p.y, mass |-> p.mass]

\* The state CosmologicalSimulation::new(n, radius, d, th, gg) returns.
NewWith(counts, radii, timesteps, gravs, positions, velocities, densities) ==
    \E n \in counts, radius \in radii, d \in timesteps, th \in Thetas, gg \in gravs :
      \E ps \in [1..n -> BigBangParticlesWith(radius, positions, velocities, densities)] :
        /\ num_particles = n
        /\ particles = [i \in 1..n |-> ps[i]]
        /\ standard_particles = [i \in 1..n |-> convert_to_particle_data(ps[i])]
        /\ bounds = [cx |-> 0, cy |-> 0, half_size |-> radius * BoundsFactor]
        /\ standard_bounds = [cx |-> 0, cy |-> 0, half_size |-> radius * StandardBoundsFactor]
        /\ time = 0
        /\ dt = d
        /\ theta = th
        /\ g = gg
        /\ initial_radius = radius
        /\ pc = "idle"
        /\ done = {}
        /\ tree = <<>>
        /\ orbital_factors = <<>>
        /\ forces = <<>>
        /\ ticks = 0
        /\ modify_calls = 0
        /\ randomize_calls = 0
        /\ log = {}
        /\ pre = <<>>
        /\ pre_std = <<>>
        /\ pre_time = 0
        /\ spin0 = <<>>
        /\ tier = <<>>
        /\ loc = <<>>
        /\ created = [i \in 1..n |-> ps[i]]
        /\ entities = <<>>
        /\ spawned = FALSE
        /\ frames = 0
        /\ twin = <<>>
        /\ wrapped = <<>>
        /\ orbit = OrbitStart

NewFrom(counts, radii, timesteps, gravs, positions, velocities) ==
    NewWith(counts, radii, timesteps, gravs, positions, velocities, InitDensities)

New(counts, radii, timesteps, gravs) ==
    NewFrom(counts, radii, timesteps, gravs, InitPositions, InitVelocities)

Init == New(0..MaxParticles, Radii, Timesteps, GravConstants)

get_particle_count == Len(particles)

(* ----------------------- parallel phases: common ---------------------- *)
\* One element access of a work item: worker w touches arr[idx].
Access(w, arr, idx, kind) == [w |-> w, arr |-> arr, idx |-> idx, kind |-> kind]

\* Chunked loops: index i may run once every earlier chunk has finished.
ChunkOf(i, size) == (i - 1) \div size

ChunkReady(i, size) ==
    \A j \in Indices : ChunkOf(j, size) < ChunkOf(i, size) => j \in done

\* Writing element i of a Vec in place.
SetAtPush(v, i, e) == Append(v, e)

SetAt(v, i, e) == [v EXCEPT ![i] = e]

\* Index of standard_particles the work item of index i keeps in sync.
MirrorIndexShifted(i) == IF i > 1 THEN i - 1 ELSE i

MirrorIndex(i) == i

(* ---------------------- modify_particle_masses ------------------------ *)
Tiers == {"dust", "asteroid", "planet", "sun"}

\* The if / else-if chain over mass_type.
TierOf(sel) ==
    IF sel < SunCut THEN "sun"
    ELSE IF sel < PlanetCut THEN "planet"
    ELSE IF sel < AsteroidCut THEN "asteroid"
    ELSE "dust"

TierScale(t) ==
    CASE t = "sun" -> SunScale
      [] t = "planet" -> PlanetScale
      [] t = "asteroid" -> AsteroidScale
      [] OTHER -> DustScale

TierBaseTypo(t) ==
    CASE t = "sun" -> SunBase
      [] t = "planet" -> PlanetBase
      [] t = "asteroid" -> 2
      [] OTHER -> DustBase

TierBase(t) ==
    CASE t = "sun" -> SunBase
      [] t = "planet" -> PlanetBase
      [] t = "asteroid" -> AsteroidBase
      [] OTHER -> DustBase

\* spin *= k; the dust branch leaves spin alone.
TierSpin(t) ==
    CASE t = "sun" -> SunSpin
      [] t = "planet" -> PlanetSpin
      [] t = "asteroid" -> AsteroidSpin
      [] OTHER -> DustSpin

TierMassNoBase(t, r) == FMul(r * TierScale(t), PI)

\* PI * rand.mul_add(scale, base)
TierMass(t, r) == FMul(MulAdd(r, TierScale(t), TierBase(t)), PI)

\* Mass range of a tier over all draws in [0, 1): [TierLo, TierHi).
TierLo(t) == FMul(MulAdd(0, TierScale(t), TierBase(t)), PI)

TierHi(t) == FMul(MulAdd(S, TierScale(t), TierBase(t)), PI)

ModifyAccesses(i) ==
    { Access(i, "particles", i, "w"), Access(i, "particles", i, "r"),
      Access(i, "standard_particles", MirrorIndex(i), "w") }

ModifyBegin ==
    /\ pc = "idle"
    /\ modify_calls < MaxModifyCalls
    /\ pc' = "modify"
    /\ done' = {}
    /\ log' = {}
    /\ spin0' = [i \in Indices |-> particles[i].spin]
    /\ tier' = [i \in Indices |-> "none"]
    /\ UNCHANGED <<num_particles, particles, standard_particles, bounds,
                   standard_bounds, time, dt, theta, g, initial_radius, tree,
                   orbital_factors, forces, ticks, modify_calls, randomize_calls,
                   pre, pre_std, pre_time, loc>>
    /\ UNCHANGED frame_vars

ModifyParticle(i, selectors) ==
    /\ pc = "modify"
    /\ i \in Indices \ done
    /\ ChunkReady(i, ModifyChunk)
    /\ \E mass_type \in selectors, r \in MassDraws :
         LET t == TierOf(mass_type)
             m == TierMass(t, r)
             p == [particles[i] EXCEPT !.mass = m, !.spin = @ * TierSpin(t)]
         IN  /\ particles' = SetAt(particles, i, p)
             /\ standard_particles' =
                    SetAt(standard_particles, MirrorIndex(i),
                          [standard_particles[MirrorIndex(i)] EXCEPT !.mass = p.mass])
             /\ tier' = [tier EXCEPT ![i] = t]
    /\ done' = done \cup {i}
    /\ log' = log \cup ModifyAccesses(i)
    /\ UNCHANGED <<num_particles, bounds, standard_bounds, time, dt, theta, g,
                   initial_radius, pc, tree, orbital_factors, forces, ticks,
                   modify_calls, randomize_calls, pre, pre_std, pre_time, spin0, loc>>
    /\ UNCHANGED frame_vars

ModifyEnd ==
    /\ pc = "modify"
    /\ done = Indices
    /\ pc' = "idle"
    /\ modify_calls' = modify_calls + 1
    /\ done' = {}
    /\ log' = {}
    /\ spin0' = <<>>
    /\ tier' = <<>>
    /\ UNCHANGED <<num_particles, particles, standard_particles, bounds,
                   standard_bounds, time, dt, theta, g, initial_radius, tree,
                   orbital_factors, forces, ticks, randomize_calls, pre, pre_std,
                   pre_time, loc>>
    /\ UNCHANGED frame_vars

(* ------------------- randomize_particle_directions -------------------- *)
AngleVariationBothWays(r) == FMul(r - S \div 2, PI)

\* rand.mul_add(0.5, -0.5) * PI
AngleVariation(r) == FMul(r \div 2 - S \div 2, PI)

RandomizedVelocity(p, r) ==
    LET angle_variation == AngleVariation(r)
        current_speed == Magnitude(p.vx, p.vy)
        current_dir == IF current_speed > 0
                       THEN <<FDiv(p.vx, current_speed), FDiv(p.vy, current_speed)>>
                       ELSE <<0, 0>>
        cos_angle == Cos(angle_variation)
        sin_angle == Sin(angle_variation)
        new_x == FMul(current_dir[1], cos_angle) - FMul(current_dir[2], sin_angle)
        new_y == FMul(current_dir[1], sin_angle) + FMul(current_dir[2], cos_angle)
    IN  <<FMul(new_x, current_speed), FMul(new_y, current_speed)>>

RandomizeAccesses(i) ==
    { Access(i, "particles", i, "w"), Access(i, "particles", i, "r") }

RandomizeBegin ==
    /\ pc = "idle"
    /\ randomize_calls < MaxRandomizeCalls
    /\ pc' = "randomize"
    /\ done' = {}
    /\ log' = {}
    /\ UNCHANGED <<num_particles, particles, standard_particles, bounds,
                   standard_bounds, time, dt, theta, g, initial_radius, tree,
                   orbital_factors, forces, ticks, modify_calls, randomize_calls,
                   pre, pre_std, pre_time, spin0, tier, loc>>
    /\ UNCHANGED frame_vars

\* The closure for index i, its random value drawn from draws.
RandomizeParticleWith(i, draws) ==
    /\ pc = "randomize"
    /\ i \in Indices \ done
    /\ ChunkReady(i, RandomizeChunk)
    /\ \E r \in draws :
         LET v == RandomizedVelocity(particles[i], r)
         IN  particles' = SetAt(particles, i,
                                [particles[i] EXCEPT !.vx = v[1], !.vy = v[2]])
    /\ done' = done \cup {i}
    /\ log' = log \cup RandomizeAccesses(i)
    /\ UNCHANGED <<num_particles, standard_particles, bounds, standard_bounds, time,
                   dt, theta, g, initial_radius, pc, tree, orbital_factors, forces,
                   ticks, modify_calls, randomize_calls, pre, pre_std, pre_time,
                   spin0, tier, loc>>
    /\ UNCHANGED frame_vars

RandomizeParticle(i) == RandomizeParticleWith(i, AngleDraws)

RandomizeEnd ==
    /\ pc = "randomize"
    /\ done = Indices
    /\ pc' = "idle"
    /\ randomize_calls' = randomize_calls + 1
    /\ done' = {}
    /\ log' = {}
    /\ UNCHANGED <<num_particles, particles, standard_particles, bounds,
                   standard_bounds, time, dt, theta, g, initial_radius, tree,
                   orbital_factors, forces, ticks, modify_calls, pre, pre_std,
                   pre_time, spin0, tier, loc>>
    /\ UNCHANGED frame_vars

\* The pass alone, over draws from both ends of [0, 1) and velocities in
\* every quadrant.
TurnDraws == {0, 250, 500, 999}

TurnVelocities == {<<0, 0>>, <<3 * S, 0>>, <<-6, 8>>, <<0, -2 * S>>, <<1200, 500>>}

TurnInit ==
    NewFrom(1..MaxParticles, {r \in Radii : r > 0}, {d \in Timesteps : d > 0},
            GravConstants, InitPositions, TurnVelocities)

TurnNext ==
    \/ RandomizeBegin
    \/ \E i \in Indices : RandomizeParticleWith(i, TurnDraws)
    \/ RandomizeEnd

TurnSpec == TurnInit /\ [][TurnNext]_vars

(* ------------------------ optimize_for_orbits ------------------------- *)
MassiveThreshold == 1000
LightThreshold == 100
OrbitDensity == 800

\* p.mass.sqrt() * 0.2
ZoneRadius(mass) == TDiv(MulDiv(ISqrt(mass), 31623, S), 5)

InOrbit(ps, p) ==
    \E j \in 1..Len(ps) :
        /\ ps[j].mass > MassiveThreshold * S
        /\ LET dx == p.x - ps[j].x
               dy == p.y - ps[j].y
           IN  Hypot(dx, dy) < ZoneRadius(ps[j].mass)
        /\ p.mass < LightThreshold * S

OptimizedFieldAssigned(ps) ==
    [i \in 1..Len(ps) |->
        IF InOrbit(ps, ps[i]) THEN [ps[i] EXCEPT !.density = OrbitDensity] ELSE ps[i]]

OptimizedField(ps) ==
    [i \in 1..Len(ps) |->
        IF InOrbit(ps, ps[i])
        THEN [ps[i] EXCEPT !.density = Max(@, OrbitDensity)]
        ELSE ps[i]]

OptimizeForOrbits ==
    /\ pc = "idle"
    /\ particles' = OptimizedField(particles)
    /\ UNCHANGED <<num_particles, standard_particles, bounds, standard_bounds, time,
                   dt, theta, g, initial_radius, pc, done, tree, orbital_factors,
                   forces, ticks, modify_calls, randomize_calls, log, pre, pre_std,
                   pre_time, spin0, tier, loc>>
    /\ UNCHANGED frame_vars

(* -------------------------------- step -------------------------------- *)
OrbitalExempt == 1000
OrbitalMinDist == 100
DragSlow == 15
DragBoost == 50
DragIdle == 1
BoostFraction == 314

\* build_tree: the tree holds the particles it was built from.
BuildTree(sp) == sp

\* Attraction of q on p: g * m_p * m_q / (r^2 + 1) along the unit vector to q.
Attraction(p, q, gg) ==
    LET dx == q.x - p.x
        dy == q.y - p.y
        r == Hypot(dx, dy)
        gmm == FMul(q.mass, FMul(p.mass, gg))
        fmag == MulDiv(gmm, S, SquaredLength(dx, dy) + S)
    IN  IF AnyNaN({p.x, p.y, q.x, q.y}) THEN <<NaN, NaN>>
        ELSE IF r = 0 THEN <<0, 0>>
        ELSE IF AnyNaN({p.mass, q.mass, gg}) THEN <<NaN, NaN>>
        ELSE <<FMul(fmag, TDiv(dx * S, r)), FMul(fmag, TDiv(dy * S, r))>>

RECURSIVE NetForceFrom(_, _, _, _)
NetForceFrom(tr, p, gg, j) ==
    IF j = 0 THEN <<0, 0>>
    ELSE LET rest == NetForceFrom(tr, p, gg, j - 1)
             a == Attraction(p, tr[j], gg)
         IN  IF AnyNaN({rest[1], rest[2], a[1], a[2]}) THEN <<NaN, NaN>>
             ELSE <<rest[1] + a[1], rest[2] + a[2]>>

\* compute_net_force(&tree, p, theta, g)
compute_net_force(tr, p, th, gg) == NetForceFrom(tr, p, gg, Len(tr))

\* (p.mass / 1000.0).min(10.0).max(0.1); f64::min and f64::max return the
\* other operand when one is NaN.
OrbitalFactor(mass) ==
    IF IsNaN(mass) THEN 10 * S
    ELSE Max(Min(TDiv(mass, 1000), 10 * S), S \div 10)

ForceClosureEverywhere(tr, p, factor, th, gg) ==
    LET f == compute_net_force(tr, p, th, gg)
    IN  IF p.mass < OrbitalExempt * S
        THEN <<f[1] + FMul(-f[2], MulDiv(factor, 3, 4)),
               f[2] + FMul(f[1], MulDiv(factor, 3, 4))>>
        ELSE f

\* The closure of the forces par_iter: solver force plus the rotated component.
ForceClosure(tr, p, factor, th, gg) ==
    LET f == compute_net_force(tr, p, th, gg)
        dist == Hypot(p.x, p.y)
    IN  IF AnyNaN({p.mass, p.x, p.y}) THEN f
        ELSE IF AnyNaN({f[1], f[2]}) /\ p.mass < OrbitalExempt * S /\ dist > OrbitalMinDist
        THEN <<NaN, NaN>>
        ELSE IF p.mass < OrbitalExempt * S /\ dist > OrbitalMinDist
        THEN LET orbital_strength == MulDiv(factor, 3, 4)
                 perpendicular_fx == FMul(-f[2], orbital_strength)
                 perpendicular_fy == FMul(f[1], orbital_strength)
             IN  <<f[1] + perpendicular_fx, f[2] + perpendicular_fy>>
        ELSE f

\* Particle::apply_force: v += (f / mass) * dt, force in thousandths.
apply_force(p, fx, fy, d) ==
    [p EXCEPT !.vx = IF AnyNaN({@, fx, p.mass, d}) THEN NaN
                     ELSE @ + FMul(FDiv(fx, p.mass), d),
              !.vy = IF AnyNaN({@, fy, p.mass, d}) THEN NaN
                     ELSE @ + FMul(FDiv(fy, p.mass), d)]

\* Particle::apply_force for a force in 10^-9 units.
apply_force_fine(p, fx, fy, d) ==
    [p EXCEPT !.vx = IF AnyNaN({@, fx, p.mass, d}) THEN NaN
                     ELSE @ + TDiv(TDiv(fx, p.mass) * d, S * S),
              !.vy = IF AnyNaN({@, fy, p.mass, d}) THEN NaN
                     ELSE @ + TDiv(TDiv(fy, p.mass) * d, S * S)]

\* Particle::update_position: position += velocity * dt.
update_position(p, d) ==
    [p EXCEPT !.x = IF AnyNaN({@, p.vx, d}) THEN NaN ELSE @ + FMul(p.vx, d),
              !.y = IF AnyNaN({@, p.vy, d}) THEN NaN ELSE @ + FMul(p.vy, d)]

\* (p.mass / 1000.0).sqrt() * 0.2
OptimalOrbitSpeed(mass) == IF IsNaN(mass) THEN NaN ELSE TDiv(ISqrt(mass), 5)

\* The three-way drag policy, in millionths.
DragStrengthUnsigned(vel_magnitude, optimal_orbit_speed) ==
    LET speed_diff == Abs(vel_magnitude - optimal_orbit_speed)
    IN  IF vel_magnitude > optimal_orbit_speed THEN speed_diff * DragSlow
        ELSE IF vel_magnitude * S < optimal_orbit_speed * BoostFraction
             THEN speed_diff * DragBoost
        ELSE speed_diff * DragIdle

DragStrength(vel_magnitude, optimal_orbit_speed) ==
    LET speed_diff == Abs(vel_magnitude - optimal_orbit_speed)
    IN  IF AnyNaN({vel_magnitude, optimal_orbit_speed}) THEN NaN
        ELSE IF vel_magnitude > optimal_orbit_speed THEN speed_diff * DragSlow
        ELSE IF vel_magnitude * S < optimal_orbit_speed * BoostFraction
             THEN -speed_diff * DragBoost
        ELSE speed_diff * DragIdle

IntegratedRestAlongX(p, f, d) ==
    LET p1 == apply_force(p, f[1], f[2], d)
        vel_magnitude == Magnitude(p1.vx, p1.vy)
        optimal_orbit_speed == OptimalOrbitSpeed(p1.mass)
        drag_strength == DragStrength(vel_magnitude, optimal_orbit_speed)
        drag_angle == IF vel_magnitude = 0 THEN <<S, 0>> ELSE Direction(p1.vx, p1.vy)
        drag_fx == IF AnyNaN({drag_strength, drag_angle[1]}) THEN NaN
                   ELSE -drag_strength * drag_angle[1]
        drag_fy == IF AnyNaN({drag_strength, drag_angle[2]}) THEN NaN
                   ELSE -drag_strength * drag_angle[2]
        p2 == apply_force_fine(p1, drag_fx, drag_fy, d)
        p3 == update_position(p2, d)
    IN  [p |-> p3, gvx |-> p1.vx, gvy |-> p1.vy, speed |-> vel_magnitude, optimal |-> optimal_orbit_speed,
         drag_strength |-> drag_strength, drag_fx |-> drag_fx, drag_fy |-> drag_fy]

IntegratedPositionFirst(p, f, d) ==
    LET p1 == apply_force(p, f[1], f[2], d)
        vel_magnitude == Magnitude(p1.vx, p1.vy)
        optimal_orbit_speed == OptimalOrbitSpeed(p1.mass)
        drag_strength == DragStrength(vel_magnitude, optimal_orbit_speed)
        drag_angle == Direction(p1.vx, p1.vy)
        drag_fx == -drag_strength * drag_angle[1]
        drag_fy == -drag_strength * drag_angle[2]
        p2 == update_position(p1, d)
        p3 == apply_force_fine(p2, drag_fx, drag_fy, d)
    IN  [p |-> p3, gvx |-> p1.vx, gvy |-> p1.vy, speed |-> vel_magnitude, optimal |-> optimal_orbit_speed,
         drag_strength |-> drag_strength, drag_fx |-> drag_fx, drag_fy |-> drag_fy]

IntegratedAging(p, f, d) ==
    LET r == IntegratedRestAlongX(p, f, d)
    IN  [r EXCEPT !.p.age = @ + d]

\* The body of the integration closure for one particle p with force f:
\* the particle it leaves and the closure's locals.
Integrated(p, f, d) ==
    LET p1 == apply_force(p, f[1], f[2], d)
        vel_magnitude == Magnitude(p1.vx, p1.vy)
        optimal_orbit_speed == OptimalOrbitSpeed(p1.mass)
        drag_strength == DragStrength(vel_magnitude, optimal_orbit_speed)
        drag_angle == Direction(p1.vx, p1.vy)
        drag_fx == IF AnyNaN({drag_strength, drag_angle[1]}) THEN NaN
                   ELSE -drag_strength * drag_angle[1]
        drag_fy == IF AnyNaN({drag_strength, drag_angle[2]}) THEN NaN
                   ELSE -drag_strength * drag_angle[2]
        p2 == apply_force_fine(p1, drag_fx, drag_fy, d)
        p3 == update_position(p2, d)
    IN  [p |-> p3, gvx |-> p1.vx, gvy |-> p1.vy, speed |-> vel_magnitude, optimal |-> optimal_orbit_speed,
         drag_strength |-> drag_strength, drag_fx |-> drag_fx, drag_fy |-> drag_fy]

\* forces[i] as the integration closure reads it.
ForceReadLive(i) ==
    ForceClosure(standard_particles, standard_particles[i], orbital_factors[i], theta, g)

ForceRead(i) == IF forces[i] = NoForce THEN <<0, 0>> ELSE forces[i]

\* collect(): the integration loop starts once every force is in the Vec.
ForcesCollectedEarly == TRUE

ForcesCollected == done = Indices

ForceAccesses(i) == { Access(i, "standard_particles", i, "r") }

IntegrateAccesses(i) ==
    { Access(i, "forces", i, "r"), Access(i, "particles", i, "r"),
      Access(i, "particles", i, "w"),
      Access(i, "standard_particles", MirrorIndex(i), "w") }

StepBegin ==
    /\ pc = "idle"
    /\ ticks < MaxTicks
    /\ pc' = "force"
    /\ done' = {}
    /\ log' = {}
    /\ tree' = BuildTree(standard_particles)
    /\ orbital_factors' = [i \in Indices |-> OrbitalFactor(standard_particles[i].mass)]
    /\ forces' = [i \in Indices |-> NoForce]
    /\ pre' = particles
    /\ pre_std' = standard_particles
    /\ pre_time' = time
    /\ loc' = [i \in Indices |-> NoLocals]
    /\ UNCHANGED <<num_particles, particles, standard_particles, bounds,
                   standard_bounds, time, dt, theta, g, initial_radius, ticks,
                   modify_calls, randomize_calls, spin0, tier>>
    /\ UNCHANGED frame_vars

ComputeForce(i) ==
    /\ pc = "force"
    /\ i \in Indices \ done
    /\ LET p == standard_particles[i]
           s == compute_net_force(tree, p, theta, g)
       IN  /\ forces' = SetAt(forces, i, ForceClosure(tree, p, orbital_factors[i], theta, g))
           /\ loc' = SetAt(loc, i, [loc[i] EXCEPT !.sfx = s[1], !.sfy = s[2]])
    /\ done' = done \cup {i}
    /\ log' = log \cup ForceAccesses(i)
    /\ UNCHANGED <<num_particles, particles, standard_particles, bounds,
                   standard_bounds, time, dt, theta, g, initial_radius, pc, tree,
                   orbital_factors, ticks, modify_calls, randomize_calls, pre,
                   pre_std, pre_time, spin0, tier>>
    /\ UNCHANGED frame_vars

IntegrateBegin ==
    /\ pc = "force"
    /\ ForcesCollected
    /\ pc' = "integrate"
    /\ done' = {}
    /\ log' = {}
    /\ UNCHANGED <<num_particles, particles, standard_particles, bounds,
                   standard_bounds, time, dt, theta, g, initial_radius, tree,
                   orbital_factors, forces, ticks, modify_calls, randomize_calls,
                   pre, pre_std, pre_time, spin0, tier, loc>>
    /\ UNCHANGED frame_vars

IntegrateParticle(i) ==
    /\ pc = "integrate"
    /\ i \in Indices \ done
    /\ LET r == Integrated(particles[i], ForceRead(i), dt)
           m == MirrorIndex(i)
       IN  /\ particles' = SetAt(particles, i, r.p)
           /\ standard_particles' =
                  SetAt(standard_particles, m,
                        [standard_particles[m] EXCEPT !.x = r.p.x, !.y = r.p.y])
           /\ loc' = SetAt(loc, i,
                  [loc[i] EXCEPT !.gvx = r.gvx, !.gvy = r.gvy, !.speed = r.speed, !.optimal = r.optimal,
                                 !.drag_strength = r.drag_strength,
                                 !.drag_fx = r.drag_fx, !.drag_fy = r.drag_fy,
                                 !.integrated = TRUE])
    /\ done' = done \cup {i}
    /\ log' = log \cup IntegrateAccesses(i)
    /\ UNCHANGED <<num_particles, bounds, standard_bounds, time, dt, theta, g,
                   initial_radius, pc, tree, orbital_factors, forces, ticks,
                   modify_calls, randomize_calls, pre, pre_std, pre_time, spin0,
                   tier>>
    /\ UNCHANGED frame_vars

\* for_each returns once the closure has run for every particle.
IntegrationCompleteUnculled ==
    \A i \in Indices :
        (\A e \in 1..Len(entities) :
            entities[e].particle_id = i => entities[e].culled = 0) => i \in done

IntegrationComplete == done = Indices

StepEnd ==
    /\ pc = "integrate"
    /\ IntegrationComplete
    /\ pc' = "idle"
    /\ time' = time + dt
    /\ ticks' = ticks + 1
    /\ done' = {}
    /\ log' = {}
    /\ tree' = <<>>
    /\ orbital_factors' = <<>>
    /\ forces' = <<>>
    /\ pre' = <<>>
    /\ pre_std' = <<>>
    /\ pre_time' = 0
    /\ loc' = <<>>
    /\ UNCHANGED <<num_particles, particles, standard_particles, bounds,
                   standard_bounds, dt, theta, g, initial_radius, modify_calls,
                   randomize_calls, spin0, tier>>
    /\ UNCHANGED frame_vars

(* ------------------- step on the orbit scenario ----------------------- *)
\* The closures of step again, on millionths.  r^2 + 1 is taken to whole
\* units, which the distances of the scenario make exact to 10^-5.
OrbitAttraction(p, q, gg) ==
    LET dx == q.x - p.x
        dy == q.y - p.y
        k == OrbitGrid(dx, dy)
        a == TDiv(dx, k)
        b == TDiv(dy, k)
        rr == ISqrt(a * a + b * b)
        r2 == IF k = 20000 THEN (rr * rr) \div 2500
              ELSE IF k = 100 THEN (rr * rr) \div (10 ^ 8)
              ELSE 0
        gmm == FMul(q.mass, FMul(p.mass, gg))
        fmag == MulDiv(gmm, S, r2 + 1)
    IN  IF rr = 0 THEN <<0, 0>>
        ELSE <<MulDiv(fmag, a, rr), MulDiv(fmag, b, rr)>>

OrbitForceClosure(ps, i) ==
    LET p == ps[i]
        f == OrbitAttraction(p, ps[3 - i], OrbitG)
        dist == OrbitNorm(p.x, p.y)
    IN  IF p.mass < OrbitalExempt * S /\ dist > OrbitalMinDist * S
        THEN LET orbital_strength == MulDiv(OrbitalFactor(p.mass), 3, 4)
                 perpendicular_fx == MulDiv(-f[2], orbital_strength, S)
                 perpendicular_fy == MulDiv(f[1], orbital_strength, S)
             IN  <<f[1] + perpendicular_fx, f[2] + perpendicular_fy>>
        ELSE f

OrbitApplyForce(p, fx, fy, d) ==
    [p EXCEPT !.vx = @ + MulDiv(MulDiv(fx, S, p.mass), d, S),
              !.vy = @ + MulDiv(MulDiv(fy, S, p.mass), d, S)]

OrbitDragStrength(vel_magnitude, optimal_orbit_speed) ==
    LET speed_diff == Abs(vel_magnitude - optimal_orbit_speed)
    IN  IF vel_magnitude > optimal_orbit_speed THEN MulDiv(speed_diff, DragSlow, S)
        ELSE IF vel_magnitude * S < optimal_orbit_speed * BoostFraction
             THEN -MulDiv(speed_diff, DragBoost, S)
        ELSE MulDiv(speed_diff, DragIdle, S)

OrbitDrag(p, drag_strength) ==
    LET k == OrbitGrid(p.vx, p.vy)
        a == TDiv(p.vx, k)
        b == TDiv(p.vy, k)
        m == ISqrt(a * a + b * b)
    IN  IF m = 0 THEN <<0, 0>>
        ELSE <<-MulDiv(drag_strength, a, m), -MulDiv(drag_strength, b, m)>>

OrbitIntegratedWholeStep(p, f, d) ==
    LET p1 == OrbitApplyForce(p, f[1], f[2], d)
        drag_strength == OrbitDragStrength(OrbitNorm(p1.vx, p1.vy),
                                           OrbitOptimalSpeed(p1.mass))
        drag == OrbitDrag(p1, drag_strength)
        p2 == OrbitApplyForce(p1, drag[1], drag[2], d)
    IN  [p2 EXCEPT !.x = @ + p2.vx, !.y = @ + p2.vy]

\* apply_force, the drag, update_position.
OrbitIntegrated(p, f, d) ==
    LET p1 == OrbitApplyForce(p, f[1], f[2], d)
        drag_strength == OrbitDragStrength(OrbitNorm(p1.vx, p1.vy),
                                           OrbitOptimalSpeed(p1.mass))
        drag == OrbitDrag(p1, drag_strength)
        p2 == OrbitApplyForce(p1, drag[1], drag[2], d)
    IN  [p2 EXCEPT !.x = @ + MulDiv(p2.vx, d, S), !.y = @ + MulDiv(p2.vy, d, S)]

\* One call of step on the two bodies: every force from the positions the
\* step found, then every particle integrated.
OrbitTick ==
    /\ orbit.n < OrbitTicks
    /\ orbit' = [n |-> orbit.n + 1,
                 ps |-> [i \in 1..2 |->
                            OrbitIntegrated(orbit.ps[i], OrbitForceClosure(orbit.ps, i),
                                            OrbitDt)]]
    /\ UNCHANGED <<num_particles, particles, standard_particles, bounds,
                   standard_bounds, time, dt, theta, g, initial_radius, pc, done,
                   tree, orbital_factors, forces, ticks, modify_calls,
                   randomize_calls, log, pre, pre_std, pre_time, spin0, tier, loc,
                   created, entities, spawned, frames, twin, wrapped>>

\* A field whose solver region (80 * initial_radius) holds the orbit.
OrbitRadii == {10 * S}

OrbitInit == NewFrom({2}, OrbitRadii, {OrbitDt}, {OrbitG}, {<<0, 0>>}, {<<0, 0>>})

OrbitSpec == OrbitInit /\ [][OrbitTick]_vars

(* --------------------------- specification ---------------------------- *)
Next ==
    \/ ModifyBegin
    \/ \E i \in Indices : ModifyParticle(i, ExtremeSelectors)
    \/ ModifyEnd
    \/ RandomizeBegin
    \/ \E i \in Indices : RandomizeParticle(i)
    \/ RandomizeEnd
    \/ OptimizeForOrbits
    \/ StepBegin
    \/ \E i \in Indices : ComputeForce(i)
    \/ IntegrateBegin
    \/ \E i \in Indices : IntegrateParticle(i)
    \/ StepEnd

Spec == Init /\ [][Next]_vars

\* The same program created with the arguments the specification admits.
ValidInit ==
    New(1..MaxParticles, {r \in Radii : r > 0}, {d \in Timesteps : d > 0},
        GravConstants)

ValidSpec == ValidInit /\ [][Next]_vars

\* The initialisation passes alone, over every selector value.
SetupNext ==
    \/ ModifyBegin
    \/ \E i \in Indices : ModifyParticle(i, Selectors)
    \/ ModifyEnd
    \/ RandomizeBegin
    \/ \E i \in Indices : RandomizeParticle(i)
    \/ RandomizeEnd
    \/ OptimizeForOrbits

SetupSpec == Init /\ [][SetupNext]_vars

\* The initialisation passes on fields with particles inside and outside the
\* orbital zones, some of them denser than the density the pass assigns.
ZoneRadii == {30 * S}

ZonePositions == {<<0, 0>>, <<0, -3 * S>>, <<20 * S, 0>>}

ZoneDensities == {S \div 2, 900}

OptimizeInit ==
    NewWith(1..MaxParticles, ZoneRadii, {d \in Timesteps : d > 0}, GravConstants,
            ZonePositions, {<<0, 0>>}, ZoneDensities)

OptimizeSpec == OptimizeInit /\ [][SetupNext]_vars

(* ------------------ spawn_particles, update_simulation ---------------- *)
visible_radius == 1440

RenderBatch == 8192

SpriteZ == -2

\* `as f32`: below 16384 the 24-bit significand resolves thousandths; above,
\* the value is rounded to the f32 grid of its binade (q steps per unit).
F32StepsPerUnit(a) ==
    IF a < 32768 * S THEN 512
    ELSE IF a < 65536 * S THEN 256
    ELSE IF a < 131072 * S THEN 128
    ELSE IF a < 262144 * S THEN 64
    ELSE IF a < 524288 * S THEN 32
    ELSE IF a < 1048576 * S THEN 16
    ELSE 8

AsF32(x) ==
    IF IsNaN(x) THEN NaN
    ELSE IF Abs(x) < 16384 * S THEN x
    ELSE LET a == Abs(x)
             q == F32StepsPerUnit(a)
             n == MulDiv(a, q, S)
             lo == MulDiv(n, S, q)
             hi == MulDiv(n + 1, S, q)
         IN  Sgn(x) * (IF a - lo <= hi - a THEN lo ELSE hi)

\* 10^(j/10) for j = 0..10, in thousandths.
Log10Table == <<1000, 1259, 1585, 1995, 2512, 3162, 3981, 5012, 6310, 7943, 10000>>

RECURSIVE Log10From(_, _)
\* log10 of y / 1000 for y >= 1, k thousands already taken out.
Log10From(y, k) ==
    IF y >= 10 * S THEN Log10From(y \div 10, k + 1)
    ELSE LET j == CHOOSE i \in 1..10 : Log10Table[i] <= y /\ y < Log10Table[i + 1]
         IN  k * S + (j - 1) * 100
             + ((y - Log10Table[j]) * 100) \div (Log10Table[j + 1] - Log10Table[j])

\* (mass.log10() * factor).max(1.0).min(cap), factor in hundredths; max and
\* min return the other operand for a NaN (log10 of a mass below 1 is
\* negative, of a mass <= 0 is -inf or NaN: all end at 1.0).
ScaleFactor(mass, factor, cap) ==
    IF IsNaN(mass) \/ mass < S THEN S
    ELSE Min(Max(TDiv(Log10From(mass, 0) * factor, 100), S), cap * S)

\* atan(z) for |z| <= 1, z in thousandths: z * (PI/4 + 0.273 * (1 - |z|)).
AtanUnit(z) == FMul(z, TDiv(PI, 4) + FMul(273, S - Abs(z)))

\* a.atan2(b)
Atan2(a, b) ==
    IF AnyNaN({a, b}) THEN NaN
    ELSE IF a = 0 /\ b = 0 THEN 0
    ELSE IF Abs(a) <= Abs(b)
         THEN LET base == AtanUnit(FDiv(Sgn(b) * a, Abs(b)))
              IN  IF b > 0 THEN base
                  ELSE IF a >= 0 THEN base + PI ELSE base - PI
    ELSE Sgn(a) * TDiv(PI, 2) - AtanUnit(FDiv(Sgn(a) * b, Abs(a)))

\* Visibility::default(), which spawn_particles leaves to the required
\* components of Sprite.
SpawnVisibilityVisible == "Visible"

SpawnVisibility == "Inherited"

\* Visibility::toggle_visible_hidden: Inherited is left as it is.
toggle_visible_hidden(v) ==
    CASE v = "Visible" -> "Hidden"
      [] v = "Hidden" -> "Visible"
      [] OTHER -> v

\* f32::clamp
Clamp(a, lo, hi) == Max(lo, Min(a, hi))

SpawnedEntityBatchId(p, i, count) ==
    [particle_id |-> ChunkOf(i, RenderBatch) * RenderBatch + 1,
     visibility |-> "Inherited",
     hue |-> TDiv(360 * S * (i - 1), count),
     saturation |-> Clamp(TDiv(AsF32(p.density), 2), 350, 650),
     lightness |-> Clamp(TDiv(AsF32(p.age), 100) + 500, 650, S),
     tx |-> AsF32(p.x), ty |-> AsF32(p.y), tz |-> SpriteZ * S,
     rotation |-> 0,
     scale |-> AsF32(ScaleFactor(p.mass, 85, 6)),
     refreshed |-> 0, culled |-> 0]

\* The entity spawn_particles makes for particle i (0-based id i - 1) of count.
SpawnedEntity(p, i, count) ==
    [particle_id |-> i,
     visibility |-> SpawnVisibility,
     hue |-> TDiv(360 * S * (i - 1), count),
     saturation |-> Clamp(TDiv(AsF32(p.density), 2), 350, 650),
     lightness |-> Clamp(TDiv(AsF32(p.age), 100) + 500, 650, S),
     tx |-> AsF32(p.x), ty |-> AsF32(p.y), tz |-> SpriteZ * S,
     rotation |-> 0,
     scale |-> AsF32(ScaleFactor(p.mass, 85, 6)),
     refreshed |-> 0, culled |-> 0]

SpawnParticles ==
    /\ pc = "idle"
    /\ ~spawned
    /\ entities' = [i \in 1..get_particle_count |->
                        SpawnedEntity(particles[i], i, get_particle_count)]
    /\ spawned' = TRUE
    /\ UNCHANGED <<num_particles, particles, standard_particles, bounds,
                   standard_bounds, time, dt, theta, g, initial_radius, pc, done,
                   tree, orbital_factors, forces, ticks, modify_calls,
                   randomize_calls, log, pre, pre_std, pre_time, spin0, tier, loc,
                   created, frames, twin, wrapped, orbit>>

\* position.0.powi(2) + position.1.powi(2) > visible_radius.powi(2)
CulledInclusive(x, y) == ~AnyNaN({x, y}) /\ PairLeq(Square(visible_radius * S), SumSquares(x, y))

Culled(x, y) == ~AnyNaN({x, y}) /\ ~WithinRadius(x, y, visible_radius * S)

\* The closure of update_simulation for one entity, in frame number f.
Rendered(ent, particle, f) ==
    IF ent.visibility = "Hidden" THEN ent
    ELSE IF Culled(particle.x, particle.y)
    THEN [ent EXCEPT !.visibility = toggle_visible_hidden(@), !.culled = f]
    ELSE LET direction == Direction(particle.vx, particle.vy)
             rotation_angle == AsF32(Atan2(direction[1], direction[2]))
             spin_turn == IF IsNaN(particle.spin) THEN NaN
                          ELSE MulDiv(AsF32(particle.spin), 3, 4)
         IN  [ent EXCEPT !.tx = AsF32(particle.x), !.ty = AsF32(particle.y),
                         !.tz = SpriteZ * S,
                         !.rotation = IF AnyNaN({rotation_angle, spin_turn}) THEN NaN
                                      ELSE rotation_angle + spin_turn,
                         !.scale = AsF32(ScaleFactor(particle.mass, 75, 10)),
                         !.refreshed = f]

Entities == 1..Len(entities)

\* update_simulation has called step(); the batched loop over the query starts.
RenderBegin ==
    /\ pc = "idle"
    /\ spawned
    /\ ticks = frames + 1
    /\ pc' = "render"
    /\ done' = {}
    /\ UNCHANGED <<num_particles, particles, standard_particles, bounds,
                   standard_bounds, time, dt, theta, g, initial_radius, tree,
                   orbital_factors, forces, ticks, modify_calls, randomize_calls,
                   log, pre, pre_std, pre_time, spin0, tier, loc, created, entities,
                   spawned, frames, twin, wrapped, orbit>>

RenderEntity(e) ==
    /\ pc = "render"
    /\ e \in Entities \ done
    /\ \A j \in Entities : ChunkOf(j, RenderBatch) < ChunkOf(e, RenderBatch) => j \in done
    /\ entities' = SetAt(entities, e,
                         Rendered(entities[e], particles[entities[e].particle_id],
                                  frames + 1))
    /\ done' = done \cup {e}
    /\ UNCHANGED <<num_particles, particles, standard_particles, bounds,
                   standard_bounds, time, dt, theta, g, initial_radius, pc, tree,
                   orbital_factors, forces, ticks, modify_calls, randomize_calls,
                   log, pre, pre_std, pre_time, spin0, tier, loc, created, spawned,
                   frames, twin, wrapped, orbit>>

RenderEnd ==
    /\ pc = "render"
    /\ done = Entities
    /\ pc' = "idle"
    /\ done' = {}
    /\ frames' = frames + 1
    /\ UNCHANGED <<num_particles, particles, standard_particles, bounds,
                   standard_bounds, time, dt, theta, g, initial_radius, tree,
                   orbital_factors, forces, ticks, modify_calls, randomize_calls,
                   log, pre, pre_std, pre_time, spin0, tier, loc, created, entities,
                   spawned, twin, wrapped, orbit>>

\* The application's frames: spawn_particles once, then update_simulation
\* (one step, then the pass over the entities) frame after frame.
RenderNext ==
    \/ SpawnParticles
    \/ (spawned /\ frames = ticks /\ StepBegin)
    \/ \E i \in Indices : ComputeForce(i)
    \/ IntegrateBegin
    \/ \E i \in Indices : IntegrateParticle(i)
    \/ StepEnd
    \/ RenderBegin
    \/ \E e \in Entities : RenderEntity(e)
    \/ RenderEnd

\* Fields whose particles are at the edge of the view circle.
EdgeRadii == {1500 * S}

EdgeGravConstants == {3}

EdgePositions ==
    {<<visible_radius * S, 0>>, <<visible_radius * S + 2, 0>>,
     <<visible_radius * S - 4, 0>>, <<864 * S, 1152 * S>>}

EdgeVelocities == {<<0, 0>>, <<4, 0>>, <<-1, 0>>}

RenderInit ==
    NewFrom(1..MaxParticles, EdgeRadii, {d \in Timesteps : d > 0},
            EdgeGravConstants, EdgePositions, EdgeVelocities)

RenderSpec == RenderInit /\ [][RenderNext]_vars

\* step alone, called tick after tick.
StepNext ==
    \/ StepBegin
    \/ \E i \in Indices : ComputeForce(i)
    \/ IntegrateBegin
    \/ \E i \in Indices : IntegrateParticle(i)
    \/ StepEnd

\* A NaN written into one particle's mass (and its mirror) between two ticks.
InjectNaNMass(i) ==
    /\ pc = "idle"
    /\ i \in Indices
    /\ \A j \in Indices : ~IsNaN(particles[j].mass)
    /\ particles' = SetAt(particles, i, [particles[i] EXCEPT !.mass = NaN])
    /\ standard_particles' =
           SetAt(standard_particles, i, [standard_particles[i] EXCEPT !.mass = NaN])
    /\ UNCHANGED <<num_particles, bounds, standard_bounds, time, dt, theta, g,
                   initial_radius, pc, done, tree, orbital_factors, forces, ticks,
                   modify_calls, randomize_calls, log, pre, pre_std, pre_time,
                   spin0, tier, loc>>
    /\ UNCHANGED frame_vars

\* step on a field that may hold a NaN, or with a NaN gravitational constant.
FaultGravConstants == GravConstants \cup {NaN}

FaultInit ==
    NewFrom(1..MaxParticles, {r \in Radii : r > 0}, {d \in Timesteps : d > 0},
            FaultGravConstants, InitPositions, InitVelocities)

FaultNext ==
    \/ \E i \in Indices : InjectNaNMass(i)
    \/ StepNext

FaultSpec == FaultInit /\ [][FaultNext]_vars

\* A field at rest without gravity.
QuietGravConstants == {0}

QuietTimesteps == {S, 200 * S}

QuietInit ==
    NewFrom(1..MaxParticles, {r \in Radii : r > 0}, QuietTimesteps,
            QuietGravConstants, InitPositions, {<<0, 0>>})

QuietSpec == QuietInit /\ [][Next]_vars

\* A field created in a small region.
TightRadii == {1}

TightInit ==
    NewFrom(1..MaxParticles, TightRadii, {d \in Timesteps : d > 0}, GravConstants,
            InitPositions, InitVelocities)

TightSpec == TightInit /\ [][StepNext]_vars

(* ------------------- a second run of the set-up ---------------------- *)
\* What modify_particle_masses and then randomize_particle_directions make of
\* one particle, for the three values rand::random returns to them.
SetupParticle(p, mass_type, r, a) ==
    LET t == TierOf(mass_type)
        q == [p EXCEPT !.mass = TierMass(t, r), !.spin = @ * TierSpin(t)]
        v == RandomizedVelocity(q, a)
    IN  [q EXCEPT !.vx = v[1], !.vy = v[2]]

\* The same passes run again on the field new returned.  rand::random takes
\* no seed, so the second run draws its own values.
TwinRun ==
    /\ pc = "idle"
    /\ ticks = 0
    /\ modify_calls = 1
    /\ randomize_calls = 1
    /\ twin = <<>>
    /\ \E draws \in [Indices -> ExtremeSelectors \X MassDraws \X AngleDraws] :
         twin' = [i \in Indices |->
                     SetupParticle(created[i], draws[i][1], draws[i][2], draws[i][3])]
    /\ UNCHANGED <<num_particles, particles, standard_particles, bounds,
                   standard_bounds, time, dt, theta, g, initial_radius, pc, done,
                   tree, orbital_factors, forces, ticks, modify_calls,
                   randomize_calls, log, pre, pre_std, pre_time, spin0, tier, loc,
                   created, entities, spawned, frames, wrapped, orbit>>

\* new, modify_particle_masses, randomize_particle_directions in the order of
\* setup, then the second run.
TwinNext ==
    \/ modify_calls = 0 /\ randomize_calls = 0 /\ ModifyBegin
    \/ \E i \in Indices : ModifyParticle(i, ExtremeSelectors)
    \/ ModifyEnd
    \/ modify_calls = 1 /\ randomize_calls = 0 /\ RandomizeBegin
    \/ \E i \in Indices : RandomizeParticle(i)
    \/ RandomizeEnd
    \/ TwinRun

TwinSpec == ValidInit /\ [][TwinNext]_vars

\* A coarse clock: a long timestep over slow particles.
CoarseTimesteps == {200 * S}

SlowVelocities == {<<0, 0>>, <<-6, 8>>, <<60, 0>>}

CoarseInit ==
    NewFrom(1..MaxParticles, {3 * S}, CoarseTimesteps, GravConstants,
            InitPositions, SlowVelocities)

CoarseSpec == CoarseInit /\ [][StepNext]_vars

(* --------------------- apply_boundary_conditions ---------------------- *)
\* One coordinate: moved by bound_size when it is beyond an edge of the region.
WrapWidthFactor == 4

Wrap(v, c, half_size) ==
    LET bound_size == half_size * WrapWidthFactor
    IN  IF AnyNaN({v, c, half_size}) THEN v
        ELSE IF v < c - half_size THEN v + bound_size
        ELSE IF v >= c + half_size THEN v - bound_size
        ELSE v

apply_boundary_conditions(b, p) ==
    [p EXCEPT !.x = Wrap(@, b.cx, b.half_size), !.y = Wrap(@, b.cy, b.half_size)]

\* A call of the method on one particle of the field, between two ticks.
ApplyBoundaryConditions(i) ==
    /\ pc = "idle"
    /\ i \in Indices
    /\ particles' = SetAt(particles, i, apply_boundary_conditions(bounds, particles[i]))
    /\ wrapped' = [before |-> particles[i],
                   after |-> apply_boundary_conditions(bounds, particles[i])]
    /\ UNCHANGED <<num_particles, standard_particles, bounds, standard_bounds, time,
                   dt, theta, g, initial_radius, pc, done, tree, orbital_factors,
                   forces, ticks, modify_calls, randomize_calls, log, pre, pre_std,
                   pre_time, spin0, tier, loc, created, entities, spawned, frames,
                   twin, orbit>>

BoundaryInit ==
    NewFrom(1..MaxParticles, TightRadii, {d \in Timesteps : d > 0}, GravConstants,
            InitPositions, SlowVelocities)

BoundaryNext ==
    \/ StepNext
    \/ \E i \in Indices : ApplyBoundaryConditions(i)

BoundarySpec == BoundaryInit /\ [][BoundaryNext]_vars

(* ------------------------------ claims -------------------------------- *)
\* The force the forces closure yields for index i on the field as the tick
\* found it.
TickStartForce(i) ==
    ForceClosure(pre_std, pre_std[i], OrbitalFactor(pre_std[i].mass), theta, g)

\* C1: in every reachable state get_particle_count() equals the num_particles
\* given to new, and particles and standard_particles both have that length:
\* no operation adds, removes or resizes particles.
C1_CountFixed ==
    /\ get_particle_count = num_particles
    /\ Len(particles) = num_particles
    /\ Len(standard_particles) = num_particles

C1_Witness ==
    /\ num_particles > 1
    /\ modify_calls > 0
    /\ randomize_calls > 0
    /\ ticks > 0
    /\ pc = "integrate"
    /\ done # {}

\* C2: the force phase of a tick completes for all particles before any
\* velocity or position is written: while forces are being computed the field
\* is the one the tick started with, integration starts only with every force
\* present, and every force equals the one computed from the tree over the
\* positions and masses held at the start of the tick.
C2_ForcePhaseFirst ==
    /\ pc = "force" => particles = pre /\ standard_particles = pre_std
    /\ pc = "integrate" => \A i \in Indices : forces[i] # NoForce
    /\ pc \in {"force", "integrate"} =>
          \A i \in Indices : forces[i] # NoForce => forces[i] = TickStartForce(i)

C2_Witness ==
    /\ pc = "integrate"
    /\ ticks > 0
    /\ \E i \in done : particles[i].x # pre[i].x \/ particles[i].y # pre[i].y
    /\ \E i \in Indices \ done : forces[i] # <<0, 0>>

\* C3: in every parallel phase that mutates the field (integration of step,
\* modify_particle_masses, randomize_particle_directions) the work item of
\* index i accesses only element i of an array, so no two work items write
\* the same element and none reads an element another one writes.
C3_DisjointIndices ==
    pc \in {"integrate", "modify", "randomize"} =>
        /\ \A a \in log : a.idx = a.w
        /\ \A a, b \in log :
              (a.w # b.w /\ a.arr = b.arr /\ a.idx = b.idx) =>
                  (a.kind = "r" /\ b.kind = "r")
        /\ {a.w : a \in log} = done

C3_Witness ==
    /\ pc = "integrate"
    /\ Cardinality(done) > 1
    /\ \E a, b \in log : a.w # b.w /\ a.arr = "standard_particles" /\ b.arr = a.arr
                         /\ a.kind = "w" /\ b.kind = "w"

\* C4: the result of one step does not depend on the order in which the
\* particles are processed: once every work item has run, each particle (and
\* its mirror) is the one obtained by integrating it alone from the pre-tick
\* field, and the time after n ticks is n * dt.
C4_OrderIndependent ==
    /\ (pc = "integrate" /\ done = Indices) =>
          \A i \in Indices :
              /\ particles[i] = Integrated(pre[i], TickStartForce(i), dt).p
              /\ standard_particles[i].x = particles[i].x
              /\ standard_particles[i].y = particles[i].y
              /\ time = pre_time
    /\ pc = "idle" => time = ticks * dt

C4_Witness ==
    /\ pc = "integrate"
    /\ done = Indices
    /\ Len(particles) > 1
    /\ \A i \in Indices : forces[i] # <<0, 0>> /\ particles[i].x # pre[i].x

C5_Assigned(i) == modify_calls > 0 \/ (pc = "modify" /\ i \in done)

\* C5: every particle's mass is strictly positive in every reachable state;
\* once modify_particle_masses has assigned it, the mass and its mirror are
\* equal, at least PI * 1 and below PI * 7000, whatever runs afterwards.
C5_MassPositive ==
    \A i \in Indices :
        /\ particles[i].mass > 0
        /\ standard_particles[i].mass > 0
        /\ C5_Assigned(i) =>
              /\ particles[i].mass >= FMul(1 * S, PI)
              /\ particles[i].mass < FMul(7000 * S, PI)
              /\ standard_particles[i].mass = particles[i].mass

C5_Witness ==
    /\ modify_calls > 0
    /\ randomize_calls > 0
    /\ ticks > 1
    /\ \E i \in Indices : particles[i].mass = FMul(1 * S, PI)
    /\ \E i \in Indices : particles[i].mass > FMul(6990 * S, PI)

C6_InRange(m, t) == TierLo(t) <= m /\ m < TierHi(t)

\* C6: modify_particle_masses puts every particle in exactly one of the four
\* tiers: its new mass lies in the range of the tier its selector chose and
\* in no other tier's range, its spin is multiplied by that tier's factor,
\* and the ranges and factors rise strictly from dust to suns (1 < 5 < 10 < 20).
C6_TierPartition ==
    /\ \A sel \in 0..(S - 1) : TierOf(sel) \in Tiers
    /\ TierLo("dust") < TierHi("dust")
    /\ TierHi("dust") <= TierLo("asteroid")
    /\ TierHi("asteroid") <= TierLo("planet")
    /\ TierHi("planet") <= TierLo("sun")
    /\ TierSpin("dust") = 1
    /\ TierSpin("asteroid") = 5
    /\ TierSpin("planet") = 10
    /\ TierSpin("sun") = 20
    /\ pc = "modify" =>
          \A i \in done :
              /\ tier[i] \in Tiers
              /\ C6_InRange(particles[i].mass, tier[i])
              /\ \A t \in Tiers \ {tier[i]} : ~C6_InRange(particles[i].mass, t)
              /\ particles[i].spin = spin0[i] * TierSpin(tier[i])

C6_Witness ==
    /\ pc = "modify"
    /\ Cardinality(done) > 1
    /\ \E i, j \in done :
          /\ tier[i] = "planet"
          /\ tier[j] = "asteroid"
          /\ particles[i].spin = 2 * particles[j].spin
          /\ particles[j].mass = TierMass("asteroid", 999)

\* C7: a simulation exists only for count > 0 and initial_radius > 0; any
\* other arguments fail with InvalidConfiguration and leave no field.
C7_ValidConfigurationOnly == num_particles > 0 /\ initial_radius > 0

\* C8: no step is ever executed with a timestep dt <= 0 (InvalidTimestep).
C8_PositiveTimestepOnly == (pc \in {"force", "integrate"} \/ ticks > 0) => dt > 0

\* C9: a particle of mass >= 1000 gets neither the perpendicular force
\* component nor the drag in step: the force applied to it is the solver's
\* net force and its drag force is zero.
C9_MassiveExempt ==
    pc = "integrate" =>
        \A i \in done :
            particles[i].mass >= 1000 * S =>
                /\ forces[i] = <<loc[i].sfx, loc[i].sfy>>
                /\ loc[i].drag_fx = 0
                /\ loc[i].drag_fy = 0

C10_Opposes(f, v) == f = 0 \/ Sgn(f) = -Sgn(v)

C10_Aligned(f, v) == f = 0 \/ Sgn(f) = Sgn(v)

\* C10: the drag coefficient follows the three-way policy on the speed v after
\* the gravitational update, with optimal = sqrt(mass / 1000) * 0.2 and
\* speed_diff = |v - optimal|: 0.015 * speed_diff for v > optimal,
\* -0.05 * speed_diff for v < 0.314 * optimal, 0.001 * speed_diff in between;
\* the drag force is -coefficient times the unit velocity, so it opposes the
\* velocity in the first and third regime and is aligned with it in the second.
C10_DragPolicy ==
    pc = "integrate" =>
        \A i \in done :
            LET v == loc[i].speed
                optimal == loc[i].optimal
                speed_diff == Abs(v - optimal)
                c == loc[i].drag_strength
                d == Direction(loc[i].gvx, loc[i].gvy)
            IN  /\ v = Magnitude(loc[i].gvx, loc[i].gvy)
                /\ (5 * optimal) * (5 * optimal) <= particles[i].mass
                /\ particles[i].mass < (5 * optimal + 6) * (5 * optimal + 6)
                /\ v > optimal => c = 15 * speed_diff
                /\ 1000 * v < 314 * optimal => c = -50 * speed_diff
                /\ (1000 * v >= 314 * optimal /\ v <= optimal) => c = speed_diff
                /\ loc[i].drag_fx = -c * d[1]
                /\ loc[i].drag_fy = -c * d[2]
                /\ 1000 * v >= 314 * optimal =>
                      /\ C10_Opposes(loc[i].drag_fx, loc[i].gvx)
                      /\ C10_Opposes(loc[i].drag_fy, loc[i].gvy)
                /\ 1000 * v < 314 * optimal =>
                      /\ C10_Aligned(loc[i].drag_fx, loc[i].gvx)
                      /\ C10_Aligned(loc[i].drag_fy, loc[i].gvy)

C10_Slow(i) == loc[i].speed > loc[i].optimal /\ loc[i].drag_fx # 0

C10_Boost(i) ==
    /\ 1000 * loc[i].speed < 314 * loc[i].optimal
    /\ loc[i].drag_strength < 0
    /\ (loc[i].drag_fx # 0 \/ loc[i].drag_fy # 0)

C10_Idle(i) ==
    /\ 1000 * loc[i].speed >= 314 * loc[i].optimal
    /\ loc[i].speed <= loc[i].optimal
    /\ loc[i].drag_strength > 0
    /\ (loc[i].drag_fx # 0 \/ loc[i].drag_fy # 0)

C10_Witness ==
    /\ pc = "integrate"
    /\ \E i, j \in done : C10_Slow(i) /\ C10_Idle(j)

C10_WitnessBoost ==
    /\ pc = "integrate"
    /\ \E i \in done : C10_Boost(i)

C11_NoInversion(before, after) ==
    /\ Sgn(before) * Sgn(after) >= 0
    /\ before = 0 => after = 0

\* C11: the drag applied in step never inverts a velocity: for every particle,
\* each velocity component after the drag update has the sign of the component
\* before the drag update, and a zero component stays zero.
C11_DragNeverInverts ==
    pc = "integrate" =>
        \A i \in done :
            /\ C11_NoInversion(loc[i].gvx, particles[i].vx)
            /\ C11_NoInversion(loc[i].gvy, particles[i].vy)

C12_Finite(p) == ~AnyNaN({p.x, p.y, p.vx, p.vy})

C12_Faulty(i) ==
    \/ AnyNaN({forces[i][1], forces[i][2], pre[i].mass})
    \/ pre[i].mass = 0

\* C12: a particle whose net force is NaN or whose mass is zero or NaN keeps,
\* for that tick, the velocity it had before the tick, and its position
\* advances by that velocity times dt.
C12_FaultContained ==
    pc = "integrate" =>
        \A i \in done :
            (C12_Faulty(i) /\ C12_Finite(pre[i])) =>
                /\ particles[i].vx = pre[i].vx
                /\ particles[i].vy = pre[i].vy
                /\ particles[i].x = pre[i].x + FMul(pre[i].vx, dt)
                /\ particles[i].y = pre[i].y + FMul(pre[i].vy, dt)

\* C13: when exactly one particle's mass is NaN before a step (and nothing
\* else is), no other particle has a NaN position or velocity after it.
C13_NaNDoesNotSpread ==
    (pc = "integrate" /\ ~IsNaN(g)
       /\ Cardinality({j \in Indices : IsNaN(pre[j].mass)}) = 1) =>
        \A i \in done :
            (~IsNaN(pre[i].mass) /\ C12_Finite(pre[i])) => C12_Finite(particles[i])

\* x^2 + y^2 <= 1440^2 for a position in thousandths.
C14_OnOrInside(p) == PairLeq(SumSquares(p.x, p.y), <<1440 * 1440, 0>>)

C14_OnCircle(p) == SumSquares(p.x, p.y) = <<1440 * 1440, 0>>

\* C14: the culling test is inclusive: an entity that is not hidden has its
\* transform refreshed in a frame iff its particle's x^2 + y^2 <= 1440^2, and
\* is culled iff x^2 + y^2 > 1440^2; a particle exactly on the circle is
\* treated as visible.
C14_CullingInclusive ==
    pc = "render" =>
        \A e \in done :
            LET ent == entities[e]
                p == particles[ent.particle_id]
            IN  ent.visibility # "Hidden" =>
                    /\ C14_OnOrInside(p) <=> ent.refreshed = frames + 1
                    /\ ~C14_OnOrInside(p) <=> ent.culled = frames + 1
                    /\ C14_OnCircle(p) => ent.refreshed = frames + 1

C14_Witness ==
    /\ pc = "render"
    /\ \E e, o \in done :
          /\ C14_OnCircle(particles[entities[e].particle_id])
          /\ particles[entities[e].particle_id].y # 0
          /\ entities[e].refreshed = frames + 1
          /\ particles[entities[o].particle_id].x = 1440 * S + 1
          /\ particles[entities[o].particle_id].y = 0
          /\ entities[o].culled = frames + 1

C16_CulledStaySimulated ==
    [][/\ pc = "render" =>
             (particles' = particles /\ standard_particles' = standard_particles)
       /\ Len(particles') = Len(particles)
       /\ (pc = "integrate" /\ pc' = "idle") =>
             \A i \in Indices : loc[i].integrated]_vars

C16_Witness ==
    /\ pc = "integrate"
    /\ frames > 0
    /\ \E e \in Entities :
          /\ entities[e].culled = frames
          /\ entities[e].particle_id \in done
          /\ particles[entities[e].particle_id].x # pre[entities[e].particle_id].x

\* C17: with g = 0 and every initial velocity zero, every particle stays where
\* new put it, through any number of steps: the perpendicular component and
\* the drag, speed-up branch included, produce no motion.
C17_NoDrift ==
    \A i \in Indices :
        /\ particles[i].x = created[i].x
        /\ particles[i].y = created[i].y
        /\ particles[i].vx = 0
        /\ particles[i].vy = 0
        /\ standard_particles[i].x = created[i].x
        /\ standard_particles[i].y = created[i].y

C17_Witness ==
    /\ g = 0
    /\ pc = "integrate"
    /\ ticks > 0
    /\ Cardinality(done) > 1
    /\ \E i, j \in done :
          /\ loc[i].speed = 0
          /\ loc[i].drag_strength < 0
          /\ particles[i].mass < 100 * S
          /\ loc[j].speed = 0
          /\ loc[j].drag_strength < 0
          /\ particles[j].mass > 1000 * S

C18_InRegion(p, q) ==
    /\ Abs(p.x - q.cx) <= q.half_size
    /\ Abs(p.y - q.cy) <= q.half_size

\* C18: whenever step builds the tree, the region it passes (standard_bounds,
\* centre 0, half_size 80 * initial_radius) contains the position of every
\* particle the tree is built from.
C18_RegionContainsField ==
    /\ standard_bounds = [cx |-> 0, cy |-> 0, half_size |-> StandardBoundsFactor * initial_radius]
    /\ pc \in {"force", "integrate"} =>
          \A j \in 1..Len(tree) : C18_InRegion(tree[j], standard_bounds)

\* One axis of the wraparound against the region [c - h, c + h).
C19_AxisWrapped(before, after, c, h) ==
    /\ (c - h <= before /\ before < c + h) => after = before
    /\ ((c - 3 * h <= before /\ before < c - h)
          \/ (c + h <= before /\ before < c + 3 * h)) =>
            (c - h <= after /\ after < c + h)

\* C19: apply_boundary_conditions is a periodic wraparound: on each axis, a
\* coordinate inside [c - half_size, c + half_size) is left unchanged and one
\* beyond an edge by less than the region's width (2 * half_size) ends inside
\* that interval.
C19_PeriodicWrap ==
    wrapped # <<>> =>
        /\ C19_AxisWrapped(wrapped.before.x, wrapped.after.x, bounds.cx, bounds.half_size)
        /\ C19_AxisWrapped(wrapped.before.y, wrapped.after.y, bounds.cy, bounds.half_size)

\* C20: two runs of new, modify_particle_masses and
\* randomize_particle_directions with the same arguments end with the same
\* field: the same position, velocity, mass and spin at every index.
C20_SetupDeterministic ==
    twin # <<>> =>
        \A i \in Indices :
            /\ twin[i].x = particles[i].x
            /\ twin[i].y = particles[i].y
            /\ twin[i].vx = particles[i].vx
            /\ twin[i].vy = particles[i].vy
            /\ twin[i].mass = particles[i].mass
            /\ twin[i].spin = particles[i].spin

\* The fields of a particle that are neither its position nor its velocity.
C21_Intrinsic(p) == <<p.mass, p.spin, p.age, p.density>>

\* C21: a step changes only velocities, positions (with their mirror in
\* standard_particles) and the simulation time: from its first action to its
\* last every particle keeps the mass, spin, age and density it had when the
\* step began, every mirror entry keeps its mass, and the count, the two
\* regions, dt, theta and g stay as they were.
C21_StepKeepsMass ==
    [][ /\ (pc = "idle" /\ pc' = "force") =>
             (particles' = particles /\ standard_particles' = standard_particles)
        /\ (pc \in {"force", "integrate"} \/ pc' = "force") =>
             /\ Len(particles') = Len(particles)
             /\ UNCHANGED <<num_particles, bounds, standard_bounds, dt, theta, g,
                            initial_radius>>
        /\ pc \in {"force", "integrate"} =>
             \A i \in Indices :
                 /\ C21_Intrinsic(particles'[i]) = C21_Intrinsic(pre[i])
                 /\ standard_particles'[i].mass = pre_std[i].mass ]_vars

\* A step is about to return with a particle of a modified mass that it has
\* moved and accelerated.
C21_Witness ==
    /\ pc = "integrate"
    /\ done = Indices
    /\ \E i \in Indices :
         /\ particles[i].mass > S
         /\ particles[i].x # pre[i].x
         /\ particles[i].vx # pre[i].vx
         /\ C21_Intrinsic(particles[i]) = C21_Intrinsic(pre[i])

\* Distance of the light particle from the origin, in millionths.
C22_Distance == OrbitNorm(orbit.ps[2].x, orbit.ps[2].y)

\* C22: in the orbit scenario (attractor of mass 10,000 at the origin, particle
\* of mass 1 at distance 400 with the optimal tangential speed, g = 1/PI,
\* dt = 0.016) the particle's distance from the origin after 1,000 steps is
\* within 20% of 400.
C22_OrbitBound ==
    orbit.n = OrbitTicks =>
        5 * Abs(C22_Distance \div S - OrbitRadius * S) <= OrbitRadius * S

\* The last of the steps is done and the particle has both fallen toward the
\* attractor and left the x axis.
C22_Witness ==
    /\ orbit.n = OrbitTicks
    /\ C22_Distance < OrbitRadius * U
    /\ orbit.ps[2].y # 0
    /\ orbit.ps[2].vx < 0

\* The mirror entry q carries the position and the mass of the particle p.
C23_Mirrors(q, p) == q.x = p.x /\ q.y = p.y /\ q.mass = p.mass

\* C23: between operations standard_particles has one entry per particle,
\* with that particle's position and mass, and during a step the tree holds
\* the positions and masses the field had when the step began.
C23_MirrorAgrees ==
    /\ Len(standard_particles) = Len(particles)
    /\ pc = "idle" =>
          \A i \in Indices : C23_Mirrors(standard_particles[i], particles[i])
    /\ pc \in {"force", "integrate"} =>
          /\ Len(tree) = Len(pre)
          /\ \A i \in 1..Len(pre) : C23_Mirrors(tree[i], pre[i])

\* A second step has begun on a field whose masses were reassigned and whose
\* particles the first step moved.
C23_Witness ==
    /\ pc = "force"
    /\ ticks >= 1
    /\ modify_calls >= 1
    /\ \E i \in Indices :
         /\ pre[i].mass # created[i].mass
         /\ pre[i].x # created[i].x
         /\ C23_Mirrors(tree[i], pre[i])

\* Particle i, integrated in this step, is what the three updates make of the
\* particle the step found, in this order: the net force on the velocity, the
\* drag (computed from the velocity the force left) on the velocity, the
\* position advanced by the final velocity times dt.
C24_InOrder(i) ==
    LET a == apply_force(pre[i], forces[i][1], forces[i][2], dt)
        strength == DragStrength(Magnitude(a.vx, a.vy), OptimalOrbitSpeed(a.mass))
        angle == Direction(a.vx, a.vy)
        b == apply_force_fine(a, -strength * angle[1], -strength * angle[2], dt)
    IN  /\ loc[i].gvx = a.vx /\ loc[i].gvy = a.vy
        /\ loc[i].drag_fx = -strength * angle[1]
        /\ loc[i].drag_fy = -strength * angle[2]
        /\ particles[i].vx = b.vx /\ particles[i].vy = b.vy
        /\ particles[i].x = pre[i].x + FMul(b.vx, dt)
        /\ particles[i].y = pre[i].y + FMul(b.vy, dt)

\* C24: within a step each particle gets the net force on its velocity, then
\* the drag on its velocity, then its position advanced by the updated
\* velocity times dt, which is the only change to its position; a particle
\* not yet integrated is as the step found it; and the simulation time is dt
\* times the number of steps taken, growing only when a step returns.
C24_IntegrationOrder ==
    /\ time = ticks * dt
    /\ pc = "force" => (particles = pre /\ time = pre_time)
    /\ pc = "integrate" =>
          /\ time = pre_time
          /\ \A i \in Indices \ done : particles[i] = pre[i]
          /\ \A i \in done : C24_InOrder(i)

\* A particle has been integrated with a non-zero force and a non-zero drag,
\* and has moved.
C24_Witness ==
    /\ pc = "integrate"
    /\ \E i \in done :
         /\ loc[i].gvx # pre[i].vx
         /\ particles[i].vx # loc[i].gvx
         /\ particles[i].x # pre[i].x
         /\ dt > 0

\* |a * b| as <<hi, lo>> with |a * b| = hi * 10^6 + lo and 0 <= lo < 10^6.
C25_Product(a, b) ==
    LET a1 == Abs(a) \div 1000
        a0 == Abs(a) % 1000
        b1 == Abs(b) \div 1000
        b0 == Abs(b) % 1000
        m == a1 * b0 + a0 * b1
        l == (m % 1000) * 1000 + a0 * b0
    IN  <<a1 * b1 + m \div 1000 + l \div 1000000, l % 1000000>>

\* (ax, ay) is orthogonal to (fx, fy), to the rounding of its two components:
\* |ax * fx + ay * fy| <= |fx| + |fy|.
C25_Orthogonal(ax, ay, fx, fy) ==
    LET u == C25_Product(ax, fx)
        v == C25_Product(ay, fy)
        hi == IF Sgn(ax) * Sgn(fx) * Sgn(ay) * Sgn(fy) >= 0
              THEN u[1] + v[1] ELSE u[1] - v[1]
        lo == IF Sgn(ax) * Sgn(fx) * Sgn(ay) * Sgn(fy) >= 0
              THEN u[2] + v[2] ELSE u[2] - v[2]
    IN  /\ Abs(hi) <= 2000
        /\ Abs(hi * 1000000 + lo) <= Abs(fx) + Abs(fy)

\* The force step uses for particle i, against the solver force (sfx, sfy).
C25_ForceOf(i) ==
    LET p == tree[i]
        fx == loc[i].sfx
        fy == loc[i].sfy
        factor == orbital_factors[i]
        s == (3 * factor) \div 4
        ax == forces[i][1] - fx
        ay == forces[i][2] - fy
    IN  /\ factor = Max(S \div 10, Min(10 * S, TDiv(p.mass, 1000)))
        /\ S \div 10 <= factor /\ factor <= 10 * S
        /\ IF p.mass < 1000 * S /\ ~WithinRadius(p.x, p.y, S \div 10)
           THEN /\ ax = -FMul(fy, s)
                /\ ay = FMul(fx, s)
                /\ C25_Orthogonal(ax, ay, fx, fy)
           ELSE ax = 0 /\ ay = 0

\* C25: the force step uses for a particle is the solver force plus the
\* component (-fy * s, fx * s), s = 0.75 * clamp(mass / 1000, 0.1, 10),
\* exactly when its mass is below 1000 and it is farther than 0.1 from the
\* origin, and the solver force otherwise; the added component is orthogonal
\* to the solver force and the clamped factor lies in [0.1, 10].
C25_PerpendicularForce ==
    pc \in {"force", "integrate"} =>
        \A i \in Indices : forces[i] # NoForce => C25_ForceOf(i)

\* Both cases at work in one step: a light particle away from the origin with
\* a component added to a non-zero solver force, and a particle that keeps
\* its non-zero solver force.
C25_Witness ==
    /\ pc = "integrate"
    /\ \E i, j \in Indices :
         /\ tree[i].mass < 1000 * S
         /\ forces[i] # <<loc[i].sfx, loc[i].sfy>>
         /\ loc[i].sfx # 0 /\ loc[i].sfy # 0
         /\ forces[j] = <<loc[j].sfx, loc[j].sfy>>
         /\ loc[j].sfx # 0

\* q is p with its velocity turned by an angle in [-PI/2, 0) and nothing else
\* changed: the same speed (to the rounding of the unit vector and of cos and
\* sin), a turn to the right (cross product <= 0) of at most a quarter
\* (dot product >= 0), a zero velocity left zero.
C26_Turned(p, q) ==
    LET speed == Magnitude(p.vx, p.vy)
        cross == p.vx * q.vy - p.vy * q.vx
        dot == p.vx * q.vx + p.vy * q.vy
    IN  /\ q.x = p.x /\ q.y = p.y
        /\ q.mass = p.mass /\ q.spin = p.spin /\ q.age = p.age /\ q.density = p.density
        /\ 1000 * Abs(Magnitude(q.vx, q.vy) - speed) <= 5 * speed + 2000
        /\ speed = 0 => (q.vx = 0 /\ q.vy = 0)
        /\ cross <= 10 * speed
        /\ dot >= -10 * speed

\* C26: every work item of randomize_particle_directions turns one velocity
\* by an angle in [-PI/2, 0) and keeps its speed; positions, masses, the
\* other particles and standard_particles are unchanged.
C26_RandomizeKeepsSpeed ==
    [][ pc = "randomize" =>
          /\ standard_particles' = standard_particles
          /\ Len(particles') = Len(particles)
          /\ \A i \in Indices : C26_Turned(particles[i], particles'[i]) ]_vars

\* The pass has turned a moving particle's velocity and left a resting one at
\* rest.
C26_Witness ==
    /\ pc = "randomize"
    /\ \E i, j \in done :
         /\ created[i].vx = 3 * S /\ particles[i].vy < -S /\ particles[i].vx > S
         /\ created[j].vx = 0 /\ created[j].vy = 0
         /\ particles[j].vx = 0 /\ particles[j].vy = 0

\* C27: an entity update_simulation has processed in the current frame whose
\* particle is outside the view radius is Hidden and its transform was not
\* written in this frame; one that is not Hidden and whose particle is inside
\* has its translation at the particle's position.
C27_CulledBecomesHidden ==
    pc = "render" =>
        \A e \in done :
            LET ent == entities[e]
                p == particles[ent.particle_id]
            IN  /\ ~C14_OnOrInside(p) =>
                      (ent.visibility = "Hidden" /\ ent.refreshed # frames + 1)
                /\ (C14_OnOrInside(p) /\ ent.visibility # "Hidden") =>
                      (ent.tx = AsF32(p.x) /\ ent.ty = AsF32(p.y) /\ ent.tz = SpriteZ * S)

\* What is displayed of an entity.
C28_Shown(ent) ==
    <<ent.visibility, ent.tx, ent.ty, ent.tz, ent.rotation, ent.scale>>

C29_Tagged(ps, p) ==
    /\ p.mass < 100 * S
    /\ \E j \in 1..Len(ps) :
         /\ ps[j].mass > 1000 * S
         /\ ((p.x - ps[j].x) * (p.x - ps[j].x) + (p.y - ps[j].y) * (p.y - ps[j].y)) \div 40
                < ps[j].mass

\* q is p after optimize_for_orbits on the field ps.
C29_Optimized(ps, p, q) ==
    /\ q.density = IF C29_Tagged(ps, p) THEN Max(p.density, 800) ELSE p.density
    /\ q.density >= p.density
    /\ [q EXCEPT !.density = 0] = [p EXCEPT !.density = 0]

\* C29: optimize_for_orbits changes nothing but density and only raises it:
\* the density of a particle of mass < 100 strictly within sqrt(M) * 0.2 of a
\* particle of mass M > 1000 becomes max(density, 0.8), everything else is
\* unchanged, and a second call changes nothing more.
C29_OptimizeOnlyRaises ==
    [][ (pc = "idle" /\ pc' = "idle") =>
          /\ Len(particles') = Len(particles)
          /\ standard_particles' = standard_particles
          /\ \A i \in Indices : C29_Optimized(particles, particles[i], particles'[i])
          /\ OptimizedField(particles') = particles' ]_vars

\* After the call: next to a massive particle, a light particle created with
\* density 0.5 has density 0.8.
C29_Witness ==
    /\ pc = "idle"
    /\ \E i, j \in Indices :
         /\ particles[j].mass > 1000 * S
         /\ particles[i].mass < 100 * S
         /\ created[i].density = S \div 2
         /\ particles[i].density = 800

\* C30: once spawn_particles has run there is exactly one entity per
\* particle, the ParticleId values are pairwise distinct and cover every
\* index of the field, and so they stay, frame after frame: the lookup
\* particles[particle_id.0] of update_simulation is always in bounds.
C30_OneEntityPerParticle ==
    /\ ~spawned => entities = <<>>
    /\ spawned =>
          /\ Len(entities) = get_particle_count
          /\ \A e \in Entities : entities[e].particle_id \in Indices
          /\ \A e, o \in Entities :
                entities[e].particle_id = entities[o].particle_id => e = o
          /\ \A i \in Indices : \E e \in Entities : entities[e].particle_id = i

\* update_simulation has looked up the particles of two entities, in a frame
\* after the first.
C30_Witness ==
    /\ spawned
    /\ pc = "render"
    /\ frames >= 1
    /\ Cardinality(done) >= 2
    /\ \A e \in done : entities[e].refreshed > 0 \/ entities[e].culled > 0

====
